---- MODULE Spec2Model ----
(***************************************************************************)
(* Model of the orchestration layer of state-machine-amz-gin: the batch    *)
(* handler (handlers.ExecuteBatch), the resume handlers (ResumeExecution,  *)
(* ResumeByCorrelation) and the background worker lifecycle                *)
(* (middleware.Worker).  The execution engine, the persistence layer and   *)
(* the queue transport live in the library state-machine-amz-go; they are  *)
(* modelled at their interface, as the design document describes them.     *)
(***************************************************************************)
EXTENDS Integers, Sequences, FiniteSets, TLC

(***************************************************************************)
(* Bounds of the model.                                                    *)
(***************************************************************************)
NumExecs ==
    3

MaxConcurrency ==
    2

MaxStarts ==
    2

MaxStops ==
    2

MaxTasks ==
    2

MaxRuns ==
    2

MaxDeliveries ==
    1

MaxSubmits ==
    2

(***************************************************************************)
(* Program constants.                                                      *)
(***************************************************************************)
DefaultConcurrency ==
    10

HttpOK ==
    200

HttpCreated ==
    201

HttpAccepted ==
    202

HttpBadRequest ==
    400

HttpNotFound ==
    404

HttpInternalServerError ==
    500

ExecIds ==
    1 .. NumExecs

\* Definitions registered in the repository; "missing" is an id that
\* persistent.NewFromDefnId cannot resolve.
Defs ==
    {"A", "B"}

DefIds ==
    Defs \cup {"missing"}

Statuses ==
    {"RUNNING", "PAUSED", "SUCCEEDED", "FAILED", "CANCELLED"}

Modes ==
    {"distributed", "concurrent"}

\* Callers of the resume endpoints.
Clients ==
    {"c1", "c2"}

\* Values of the correlation key stored with an execution.
CorrValues ==
    {"12345", "67890"}

VARIABLES
    store,      \* execution records of the persistence layer, by execution id
    batch,      \* the ExecuteBatch request in progress (handler + dispatcher)
    bresp,      \* the last HTTP response of ExecuteBatch
    derive,     \* the execution options of batch runs and what they derive
    built,      \* the source execution filter built from a batch request
    resume,     \* per client, the resume request in progress
    rresp,      \* per client, the last HTTP response of a resume endpoint
    worker,     \* the *Worker returned by middleware.NewWorker
    qw,         \* the queue.Worker it wraps
    run,        \* goroutines of Start that have not entered Run yet
    wpc,        \* per caller of Stop, where the call is
    sig,        \* the signal goroutine of StartWithGracefulShutdown
    hist,       \* what has been called and returned so far
    submission  \* StartExecution and EnqueueExecution: the last request and
                \* its answer, the executions started and the tasks queued

batchVars ==
    <<batch, bresp, derive, built>>

resumeVars ==
    <<resume, rresp>>

workerVars ==
    <<worker, qw, run, wpc, sig, hist>>

vars ==
    <<store, batch, bresp, derive, built, resume, rresp, worker, qw, run, wpc,
      sig, hist, submission>>

(***************************************************************************)
(* Small helpers.                                                          *)
(***************************************************************************)
RECURSIVE SeqOfSet(_)
SeqOfSet(S) ==
    IF S = {} THEN <<>>
    ELSE LET m == CHOOSE x \in S : \A y \in S : x <= y
         IN  <<m>> \o SeqOfSet(S \ {m})

\* Start time (epoch seconds) of the execution with the given id.
StartTimeOf(id) ==
    id

(***************************************************************************)
(* handlers.ExecuteBatch: the filter builder.                              *)
(***************************************************************************)
\* The zero time.Time: the value of a time bound the handler leaves unset.
Unset ==
    [isZero |-> TRUE, unix |-> 0]

\* time.Unix(sec, 0)
TimeUnix(sec) ==
    [isZero |-> FALSE, unix |-> sec]

NoFilter ==
    [isNil |-> TRUE, StateMachineID |-> "", Status |-> "", Limit |-> 0,
     Offset |-> 0, StartAfter |-> Unset, StartBefore |-> Unset]

\* Variant: the source definition named by the request is not looked at.
BuildFilterIgnoresOverride(req, stateMachineID) ==
    IF ~req.hasFilter THEN NoFilter
    ELSE [isNil |-> FALSE,
          StateMachineID |-> stateMachineID,
          Status |-> IF req.filter.Status # "" THEN req.filter.Status ELSE "",
          Limit |-> IF req.filter.Limit # 0 THEN req.filter.Limit ELSE 0,
          Offset |-> IF req.filter.Offset # 0 THEN req.filter.Offset ELSE 0,
          StartAfter |-> IF req.filter.StartTimeFrom # 0
                         THEN TimeUnix(req.filter.StartTimeFrom) ELSE Unset,
          StartBefore |-> IF req.filter.StartTimeTo # 0
                          THEN TimeUnix(req.filter.StartTimeTo) ELSE Unset]

\* The source execution filter built from the request: nil without a filter
\* in the request.
BuildFilter(req, stateMachineID) ==
    IF ~req.hasFilter THEN NoFilter
    ELSE [isNil |-> FALSE,
          StateMachineID |-> IF req.filter.SourceStateMachineId # ""
                             THEN req.filter.SourceStateMachineId
                             ELSE stateMachineID,
          Status |-> IF req.filter.Status # "" THEN req.filter.Status ELSE "",
          Limit |-> IF req.filter.Limit # 0 THEN req.filter.Limit ELSE 0,
          Offset |-> IF req.filter.Offset # 0 THEN req.filter.Offset ELSE 0,
          StartAfter |-> IF req.filter.StartTimeFrom # 0
                         THEN TimeUnix(req.filter.StartTimeFrom) ELSE Unset,
          StartBefore |-> IF req.filter.StartTimeTo # 0
                          THEN TimeUnix(req.filter.StartTimeTo) ELSE Unset]

\* Default values: a zero concurrency becomes 10.
DefaultedConcurrency(c) ==
    IF c = 0 THEN DefaultConcurrency ELSE c

\* Variant: the stop-on-error flag of the request is not passed on.
BatchOptsNoStopOnError(req) ==
    [ConcurrentBatches |-> DefaultedConcurrency(req.Concurrency),
     StopOnError |-> FALSE]

\* statemachine.BatchExecutionOptions built from the request.
BatchOpts(req) ==
    [ConcurrentBatches |-> DefaultedConcurrency(req.Concurrency),
     StopOnError |-> req.StopOnError]

\* Variant: the queue client is set whenever one is configured, whatever
\* the mode of the request.
UseQueueAnyMode(hasQueue, mode) ==
    hasQueue

\* sm.SetQueueClient is called iff a queue client is configured and the
\* request's mode is "distributed".
UseQueue(hasQueue, mode) ==
    hasQueue /\ mode = "distributed"


(***************************************************************************)
(* Persistence collaborator: listExecutions(filter).  Records are returned *)
(* in id order; an empty status and unset time bounds select everything; a *)
(* zero limit means no limit.                                              *)
(***************************************************************************)
FilterSelects(f, id) ==
    /\ store[id].def = f.StateMachineID
    /\ (f.Status = "" \/ store[id].status = f.Status)
    /\ (f.StartAfter.isZero \/ StartTimeOf(id) > f.StartAfter.unix)
    /\ (f.StartBefore.isZero \/ StartTimeOf(id) < f.StartBefore.unix)

ListExecutions(f) ==
    LET all == SeqOfSet({id \in ExecIds : FilterSelects(f, id)})
        from == IF f.Offset >= Len(all) THEN <<>>
                ELSE SubSeq(all, f.Offset + 1, Len(all))
    IN  IF f.Limit = 0 \/ f.Limit >= Len(from) THEN from
        ELSE SubSeq(from, 1, f.Limit)

(***************************************************************************)
(* handlers.ExecuteBatch: aggregation of the per-item results.             *)
(***************************************************************************)
\* Variant: every result is counted as enqueued, its error is not looked at.
CountEnqueuedIgnoresError(results) ==
    Len(results)

RECURSIVE CountEnqueued(_)
CountEnqueued(results) ==
    IF results = <<>> THEN 0
    ELSE (IF Head(results).err THEN 0 ELSE 1) + CountEnqueued(Tail(results))

RECURSIVE CountFailed(_)
CountFailed(results) ==
    IF results = <<>> THEN 0
    ELSE (IF Head(results).err THEN 1 ELSE 0) + CountFailed(Tail(results))

ErrorResponse(code, error) ==
    [code |-> code, error |-> error, totalEnqueued |-> 0, totalFailed |-> 0,
     mode |-> ""]

NoResponse ==
    ErrorResponse(0, "")

\* Variant: an empty result list is answered like an empty correlation
\* match, with 404.
BatchResponseEmptyNotFound(results, err, mode) ==
    IF err THEN ErrorResponse(HttpInternalServerError, "Batch execution failed")
    ELSE IF results = <<>>
    THEN ErrorResponse(HttpNotFound, "No executions found")
    ELSE [code |-> HttpOK, error |-> "",
          totalEnqueued |-> CountEnqueued(results),
          totalFailed |-> CountFailed(results),
          mode |-> mode]

\* Variant: a batch in which an item failed is answered as a failed batch.
BatchResponseFailsOnItemError(results, err, mode) ==
    IF err \/ CountFailed(results) > 0
    THEN ErrorResponse(HttpInternalServerError, "Batch execution failed")
    ELSE [code |-> HttpOK, error |-> "",
          totalEnqueued |-> CountEnqueued(results),
          totalFailed |-> CountFailed(results),
          mode |-> mode]

\* The answer of the handler once sm.ExecuteBatch has returned.
BatchResponse(results, err, mode) ==
    IF err THEN ErrorResponse(HttpInternalServerError, "Batch execution failed")
    ELSE [code |-> HttpOK, error |-> "",
          totalEnqueued |-> CountEnqueued(results),
          totalFailed |-> CountFailed(results),
          mode |-> mode]

(***************************************************************************)
(* The batch request in progress.                                          *)
(*   reqStopOnError, reqConcurrency   what the request asked for            *)
(*   stopOnError, bound   the BatchExecutionOptions given to the dispatcher*)
(*   queried   the dispatcher has listed the source records                *)
(*   matched   the source records selected by the filter, in order         *)
(*   next      number of items submitted so far (items are submitted in    *)
(*             the order of matched)                                       *)
(*   inflight  indices of the items submitted and not yet finished         *)
(*   failed    indices of the finished items that returned an error        *)
(*   tasks     indices of the items submitted to the queue as tasks        *)
(*   hasRepo, hasQueue, bindOk, defFound, hasFilter   what the handler     *)
(*             found: a repository manager, a queue client, a body that    *)
(*             binds, the target definition, a filter object in the body   *)
(***************************************************************************)
IdleBatch ==
    [pc |-> "idle", mode |-> "", distributed |-> FALSE,
     reqStopOnError |-> FALSE, reqConcurrency |-> 0,
     stopOnError |-> FALSE, bound |-> 0, queried |-> FALSE,
     matched |-> <<>>, next |-> 0, inflight |-> {}, failed |-> {},
     tasks |-> {}, hasRepo |-> FALSE, hasQueue |-> FALSE, bindOk |-> FALSE,
     defFound |-> FALSE, hasFilter |-> FALSE]

\* The handler has answered without calling the dispatcher.
ReturnedBatch ==
    [IdleBatch EXCEPT !.pc = "done"]

\* The same, with what the handler had found when it answered.
ReturnedAfter(hasRepo, bindOk, defFound) ==
    [ReturnedBatch EXCEPT !.hasRepo = hasRepo, !.bindOk = bindOk,
                          !.defFound = defFound]

FilterRequests ==
    [SourceStateMachineId : {"", "B"},
     Status : {"", "SUCCEEDED", "PAUSED"},
     Limit : {0, 2},
     Offset : {0, 1},
     StartTimeFrom : {0, 1},
     StartTimeTo : {0, NumExecs}]

BatchRequests ==
    [hasFilter : BOOLEAN,
     filter : FilterRequests,
     Concurrency : (-1) .. MaxConcurrency,
     Mode : Modes,
     StopOnError : BOOLEAN]

\* The handler from the filter to the call of sm.ExecuteBatch, once the
\* repository manager, the request body and the definition have been found.
BatchCall(hasQueue, stateMachineID, req, listErr) ==
    IF ~req.hasFilter
    \* req.Filter.SourceStateName dereferences the nil filter: the panic is
    \* recovered by middleware.ErrorHandler.
    THEN [resp |-> ErrorResponse(HttpInternalServerError,
                                 "Internal Server Error"),
          b |-> ReturnedAfter(TRUE, TRUE, stateMachineID \in Defs)]
    ELSE LET opts == BatchOpts(req)
             f == BuildFilter(req, stateMachineID)
         IN  IF listErr
             THEN [resp |-> BatchResponse(<<>>, TRUE, req.Mode),
                   b |-> [ReturnedAfter(TRUE, TRUE, stateMachineID \in Defs)
                             EXCEPT !.hasFilter = TRUE]]
             ELSE [resp |-> NoResponse,
                   b |-> [pc |-> "dispatch", mode |-> req.Mode,
                          distributed |-> UseQueue(hasQueue, req.Mode),
                          reqStopOnError |-> req.StopOnError,
                          reqConcurrency |-> req.Concurrency,
                          stopOnError |-> opts.StopOnError,
                          bound |-> opts.ConcurrentBatches,
                          queried |-> TRUE,
                          matched |-> ListExecutions(f), next |-> 0,
                          inflight |-> {}, failed |-> {}, tasks |-> {},
                          hasRepo |-> TRUE, hasQueue |-> hasQueue,
                          bindOk |-> TRUE,
                          defFound |-> stateMachineID \in Defs,
                          hasFilter |-> TRUE]]

\* Variant: the handler does not stop when the definition cannot be loaded.
BatchEntryNoDefinitionCheck(hasRepo, hasQueue, bindOk, stateMachineID, req, listErr) ==
    IF ~hasRepo
    THEN [resp |-> ErrorResponse(HttpInternalServerError,
                                 "Repository manager not configured"),
          b |-> ReturnedAfter(FALSE, FALSE, FALSE)]
    ELSE IF ~bindOk
    THEN [resp |-> ErrorResponse(HttpBadRequest, "Invalid request"),
          b |-> ReturnedAfter(TRUE, FALSE, FALSE)]
    ELSE BatchCall(hasQueue, stateMachineID, req, listErr)

\* The handler from its entry to the call of sm.ExecuteBatch, which either
\* answers at once (the response) or starts the dispatch.
BatchEntry(hasRepo, hasQueue, bindOk, stateMachineID, req, listErr) ==
    IF ~hasRepo
    THEN [resp |-> ErrorResponse(HttpInternalServerError,
                                 "Repository manager not configured"),
          b |-> ReturnedAfter(FALSE, FALSE, FALSE)]
    ELSE IF ~bindOk
    THEN [resp |-> ErrorResponse(HttpBadRequest, "Invalid request"),
          b |-> ReturnedAfter(TRUE, FALSE, FALSE)]
    ELSE IF stateMachineID \notin Defs
    THEN [resp |-> ErrorResponse(HttpNotFound, "State machine not found"),
          b |-> ReturnedAfter(TRUE, TRUE, FALSE)]
    ELSE BatchCall(hasQueue, stateMachineID, req, listErr)

\* A request that is answered before its body is looked at (no repository
\* manager, a body that does not bind, an unknown definition).
EntryFails(hasRepo, bindOk, stateMachineID) ==
    ~hasRepo \/ ~bindOk \/ stateMachineID \notin Defs

SomeBatchRequest ==
    CHOOSE req \in BatchRequests : TRUE

ExecuteBatchBegin ==
    /\ batch.pc = "idle"
    /\ \E hasRepo \in BOOLEAN, bindOk \in BOOLEAN, stateMachineID \in DefIds :
          \E hasQueue \in BOOLEAN, listErr \in BOOLEAN,
             req \in IF EntryFails(hasRepo, bindOk, stateMachineID)
                     THEN {SomeBatchRequest} ELSE BatchRequests :
             LET e == BatchEntry(hasRepo, hasQueue, bindOk, stateMachineID,
                                 req, listErr)
             IN  /\ batch' = e.b
                 /\ bresp' = e.resp
    /\ UNCHANGED <<store, derive, built, resumeVars, workerVars,
                 submission>>

(***************************************************************************)
(* sm.ExecuteBatch: the dispatcher.                                        *)
(***************************************************************************)
Halted(b) ==
    b.stopOnError /\ b.failed # {}

DispatchSubmit ==
    /\ batch.pc = "dispatch"
    /\ batch.next < Len(batch.matched)
    /\ Cardinality(batch.inflight) < batch.bound
    /\ ~Halted(batch)
    /\ batch' = [batch EXCEPT !.next = @ + 1,
                              !.inflight = @ \cup {batch.next + 1},
                              !.tasks = IF batch.distributed
                                        THEN @ \cup {batch.next + 1} ELSE @]
    /\ UNCHANGED <<store, bresp, derive, built, resumeVars, workerVars,
                 submission>>

DispatchItemDone ==
    /\ batch.pc = "dispatch"
    /\ \E i \in batch.inflight, err \in BOOLEAN :
          batch' = [batch EXCEPT !.inflight = @ \ {i},
                                 !.failed = IF err THEN @ \cup {i} ELSE @]
    /\ UNCHANGED <<store, bresp, derive, built, resumeVars, workerVars,
                 submission>>

\* The per-item result list: one entry per submitted item.
BatchResults(b) ==
    [i \in 1 .. b.next |-> [source |-> b.matched[i], err |-> i \in b.failed]]

ExecuteBatchReturn ==
    /\ batch.pc = "dispatch"
    /\ batch.inflight = {}
    /\ batch.next = Len(batch.matched) \/ Halted(batch)
    /\ bresp' = BatchResponse(BatchResults(batch), FALSE, batch.mode)
    /\ batch' = [batch EXCEPT !.pc = "done"]
    /\ UNCHANGED <<store, derive, built, resumeVars, workerVars,
                 submission>>

(***************************************************************************)
(* handlers.ExecuteBatch: the execution options, and what the dispatcher   *)
(* derives under them.                                                     *)
(*   registry    the transformer registry of the process                   *)
(*   execOpts    the option list composed for the batch run in progress    *)
(*   next        number of source records handled in this run              *)
(*   derived     per source record, the derived executions started so far  *)
(*   input       per source record, the input of the derived execution     *)
(*               started for it in this run                                *)
(*   failed      the source records whose item failed in this run          *)
(*   allUnique   every run so far asked for uniqueness                     *)
(***************************************************************************)
TransformerNames ==
    {"", "csv2Json", "unknown"}

\* A registry maps a name to a function ("fn"), to a nil function ("nil") or
\* to nothing ("absent").
Registries ==
    [TransformerNames -> {"absent", "nil", "fn"}]

\* transformerRegistry[name]: the function registered under the name, or nil.
RegistryLookup(registry, name) ==
    IF registry[name] = "fn" THEN name ELSE "nil"

WithUniqueness ==
    [option |-> "WithUniqueness", arg |-> "true"]

WithInputTransformerName(name) ==
    [option |-> "WithInputTransformerName", arg |-> name]

WithInputTransformer(transformerFunc) ==
    [option |-> "WithInputTransformer", arg |-> transformerFunc]

\* Variant: the uniqueness option is never appended.
ExecOptsNoUniqueness(applyUnique, sourceInputTransformer, registry) ==
    LET transformerFunc == RegistryLookup(registry, sourceInputTransformer)
    IN  IF transformerFunc # "nil"
        THEN <<WithInputTransformerName(sourceInputTransformer),
               WithInputTransformer(transformerFunc)>>
        ELSE <<>>

\* The execution options built by the handler.
ExecOpts(applyUnique, sourceInputTransformer, registry) ==
    LET transformerFunc == RegistryLookup(registry, sourceInputTransformer)
    IN  (IF applyUnique THEN <<WithUniqueness>> ELSE <<>>)
        \o (IF transformerFunc # "nil"
            THEN <<WithInputTransformerName(sourceInputTransformer),
                   WithInputTransformer(transformerFunc)>>
            ELSE <<>>)

HasOption(opts, name) ==
    \E i \in 1 .. Len(opts) : opts[i].option = name

IdleDerive(registry) ==
    [pc |-> "idle", registry |-> registry, applyUnique |-> FALSE,
     sourceInputTransformer |-> "", execOpts |-> <<>>, next |-> 0,
     derived |-> [id \in ExecIds |-> 0],
     input |-> [id \in ExecIds |-> ""],
     failed |-> {}, runs |-> 0, deliveries |-> 0, allUnique |-> TRUE]

NoRegistry ==
    [name \in TransformerNames |-> "absent"]

\* The handler composes the options of a batch run and calls sm.ExecuteBatch
\* with them.
ComposeOptions ==
    /\ derive.pc = "idle"
    /\ derive.runs < MaxRuns
    /\ \E applyUnique \in BOOLEAN, name \in TransformerNames :
          derive' = [derive EXCEPT
              !.pc = "run",
              !.applyUnique = applyUnique,
              !.sourceInputTransformer = name,
              !.execOpts = ExecOpts(applyUnique, name, derive.registry),
              !.next = 0,
              !.input = [id \in ExecIds |-> ""],
              !.failed = {},
              !.runs = @ + 1,
              !.allUnique = @ /\ applyUnique]
    /\ UNCHANGED <<store, batch, bresp, built, resumeVars, workerVars,
                 submission>>

\* Execution engine: a derived execution is started for a source record
\* under the options.  With the uniqueness option a source record that has a
\* derived execution gets no second one; with the transform option the input
\* is the transformed output, unless the transformer fails.
StartDerived(d, id, transformErr) ==
    IF HasOption(d.execOpts, "WithUniqueness") /\ d.derived[id] > 0
    THEN d
    ELSE IF HasOption(d.execOpts, "WithInputTransformer")
    THEN IF transformErr
         THEN [d EXCEPT !.failed = @ \cup {id}]
         ELSE [d EXCEPT !.derived[id] = @ + 1,
                        !.input[id] =
                            d.execOpts[Len(d.execOpts)].arg]
    ELSE [d EXCEPT !.derived[id] = @ + 1, !.input[id] = "output"]

\* Dispatcher: the next source record of the run is handled.
DeriveExecution ==
    /\ derive.pc = "run"
    /\ derive.next < NumExecs
    /\ \E transformErr \in BOOLEAN :
          derive' = [StartDerived(derive, derive.next + 1, transformErr)
                        EXCEPT !.next = @ + 1]
    /\ UNCHANGED <<store, batch, bresp, built, resumeVars, workerVars,
                 submission>>

\* Queue transport: the task of a source record handled in this run is
\* delivered once more (at-least-once delivery).
TaskRedelivered ==
    /\ derive.pc = "run"
    /\ derive.deliveries < MaxDeliveries
    /\ \E id \in 1 .. derive.next, transformErr \in BOOLEAN :
          derive' = [StartDerived(derive, id, transformErr)
                        EXCEPT !.deliveries = @ + 1]
    /\ UNCHANGED <<store, batch, bresp, built, resumeVars, workerVars,
                 submission>>

\* sm.ExecuteBatch returns.
DeriveReturn ==
    /\ derive.pc = "run"
    /\ derive.next = NumExecs
    /\ derive' = [derive EXCEPT !.pc = "idle"]
    /\ UNCHANGED <<store, batch, bresp, built, resumeVars, workerVars,
                 submission>>

(***************************************************************************)
(* handlers.ExecuteBatch: the filter builder on its own.                   *)
(***************************************************************************)
FilterValues ==
    [SourceStateMachineId : {"", "A", "B"},
     Status : {"", "SUCCEEDED", "PAUSED"},
     Limit : {-1, 0, 2},
     Offset : {-1, 0, 1},
     StartTimeFrom : {-1, 0, 1},
     StartTimeTo : {0, NumExecs}]

NothingBuilt ==
    [pc |-> "idle", hasFilter |-> FALSE,
     req |-> [SourceStateMachineId |-> "", Status |-> "", Limit |-> 0,
              Offset |-> 0, StartTimeFrom |-> 0, StartTimeTo |-> 0],
     stateMachineID |-> "", filter |-> NoFilter]

\* The handler builds the source execution filter of a request.
BuildSourceFilter ==
    /\ built.pc = "idle"
    /\ \E hasFilter \in BOOLEAN, f \in FilterValues,
          stateMachineID \in Defs :
          built' = [pc |-> "built", hasFilter |-> hasFilter,
                    req |-> IF hasFilter THEN f ELSE NothingBuilt.req,
                    stateMachineID |-> stateMachineID,
                    filter |-> BuildFilter(
                        [hasFilter |-> hasFilter,
                         filter |-> IF hasFilter THEN f
                                    ELSE NothingBuilt.req],
                        stateMachineID)]
    /\ UNCHANGED <<store, batch, bresp, derive, resumeVars, workerVars,
                 submission>>

(***************************************************************************)
(* handlers.StartExecution and handlers.EnqueueExecution.                  *)
(*   started   the executions sm.Execute has started                       *)
(*   tasks     the queue each task of queueClient.EnqueueExecution is on   *)
(***************************************************************************)
QueueNames ==
    {"default", "critical"}

SubmitResponse(code, error, queue) ==
    [code |-> code, error |-> error, queue |-> queue]

IdleSubmission ==
    [op |-> "", hasRepo |-> FALSE, hasExecutor |-> FALSE, hasQueue |-> FALSE,
     queue |-> "", resp |-> SubmitResponse(0, "", ""), started |-> 0,
     tasks |-> <<>>, calls |-> 0]

\* models.EnqueueExecutionRequest: the queue the request names ("" when the
\* field is left out) and the definition to run.
EnqueueRequests ==
    [StateMachineID : Defs, Queue : QueueNames \cup {""}]

\* The queue.ExecutionTaskPayload the handler builds from the request.
EnqueuePayload(req) ==
    [StateMachineID |-> req.StateMachineID]

\* Queue client: queueClient.EnqueueExecution(payload) puts the task on the
\* queue the client is configured to use for the payload and returns a handle
\* naming that queue.
ClientEnqueue(tasks, payload, clientQueue) ==
    [tasks |-> Append(tasks, [queue |-> clientQueue, payload |-> payload]),
     taskInfo |-> [Queue |-> clientQueue]]

\* EnqueueExecution, given whether the queue client is in the context,
\* whether the body binds, the queue the client uses and whether its call
\* fails.
EnqueueExecutionCall(s, hasQueue, bindOk, req, clientQueue, enqErr) ==
    LET r == [s EXCEPT !.op = "EnqueueExecution", !.hasRepo = FALSE,
                       !.hasExecutor = FALSE, !.hasQueue = hasQueue,
                       !.queue = req.Queue, !.calls = @ + 1]
    IN  IF ~hasQueue
        THEN [r EXCEPT !.resp = SubmitResponse(HttpInternalServerError,
                                    "Queue client not configured", "")]
        ELSE IF ~bindOk
        THEN [r EXCEPT !.resp = SubmitResponse(HttpBadRequest,
                                               "Invalid request", "")]
        ELSE IF enqErr
        THEN [r EXCEPT !.resp = SubmitResponse(HttpInternalServerError,
                                    "Failed to enqueue execution", "")]
        ELSE LET e == ClientEnqueue(s.tasks, EnqueuePayload(req), clientQueue)
             IN  [r EXCEPT !.tasks = e.tasks,
                           !.resp = SubmitResponse(HttpCreated, "",
                                                   e.taskInfo.Queue)]

EnqueueExecution ==
    /\ submission.calls < MaxSubmits
    /\ \E hasQueue \in BOOLEAN, bindOk \in BOOLEAN, enqErr \in BOOLEAN,
          req \in EnqueueRequests, clientQueue \in QueueNames :
          submission' = EnqueueExecutionCall(submission, hasQueue, bindOk,
                                             req, clientQueue, enqErr)
    /\ UNCHANGED <<store, batchVars, resumeVars, workerVars>>

\* persistent.NewFromDefnId called with a nil repository manager: the call
\* cannot load a definition; it panics on the nil manager (the ErrorHandler
\* middleware answers 500 "Internal Server Error") or returns an error.
NilManagerOutcomes ==
    {"panic", "error"}

\* StartExecution.  "repoManager, ok := ..." is followed by
\* "baseExecutor, ok := ...", so the first check of the handler tests the
\* base executor only.
StartExecutionCall(s, hasRepo, hasExecutor, hasQueue, bindOk, stateMachineID, nilManager, execErr) ==
    LET r == [s EXCEPT !.op = "StartExecution", !.hasRepo = hasRepo,
                       !.hasExecutor = hasExecutor, !.hasQueue = hasQueue,
                       !.queue = "", !.calls = @ + 1]
        ok == hasExecutor
    IN  IF ~ok
        THEN [r EXCEPT !.resp = SubmitResponse(HttpInternalServerError,
                                    "Repository manager not configured", "")]
        ELSE IF ~hasQueue
        THEN [r EXCEPT !.resp = SubmitResponse(HttpInternalServerError,
                                    "Queue client not configured", "")]
        ELSE IF ~bindOk
        THEN [r EXCEPT !.resp = SubmitResponse(HttpBadRequest,
                                               "Invalid request", "")]
        ELSE IF ~hasRepo /\ nilManager = "panic"
        THEN [r EXCEPT !.resp = SubmitResponse(HttpInternalServerError,
                                               "Internal Server Error", "")]
        ELSE IF ~hasRepo \/ stateMachineID \notin Defs
        THEN [r EXCEPT !.resp = SubmitResponse(HttpNotFound,
                                               "State machine not found", "")]
        ELSE IF execErr
        THEN [r EXCEPT !.resp = SubmitResponse(HttpInternalServerError,
                                    "Failed to queue execution", "")]
        ELSE [r EXCEPT !.started = @ + 1,
                       !.resp = SubmitResponse(HttpAccepted, "", "")]

StartExecution ==
    /\ submission.calls < MaxSubmits
    /\ \E hasRepo \in BOOLEAN, hasExecutor \in BOOLEAN, hasQueue \in BOOLEAN,
          bindOk \in BOOLEAN, execErr \in BOOLEAN,
          stateMachineID \in DefIds, nilManager \in NilManagerOutcomes :
          submission' = StartExecutionCall(submission, hasRepo, hasExecutor,
                                           hasQueue, bindOk, stateMachineID,
                                           nilManager, execErr)
    /\ UNCHANGED <<store, batchVars, resumeVars, workerVars>>

(***************************************************************************)
(* middleware.Worker: the background worker and its lifecycle.             *)
(***************************************************************************)
\* Goroutines that call Stop: the one that owns the worker and the signal
\* goroutine installed by StartWithGracefulShutdown.
Callers ==
    {"main", "signal"}

WorkerConfigs ==
    [isNil : BOOLEAN, EnableWorker : BOOLEAN, QueueConfig : BOOLEAN,
     RepositoryManager : BOOLEAN, BaseExecutor : BOOLEAN,
     newWorkerErr : BOOLEAN]

NilWorker ==
    [isNil |-> TRUE, cancelled |-> FALSE, err |-> FALSE]

\* A nil *WorkerConfig.
NilConfig ==
    [isNil |-> TRUE, EnableWorker |-> FALSE, QueueConfig |-> FALSE,
     RepositoryManager |-> FALSE, BaseExecutor |-> FALSE,
     newWorkerErr |-> FALSE]

\* Variant: NewWorker does not look at the base executor.
NewWorkerNoExecutorCheck(config) ==
    IF config.isNil THEN NilWorker
    ELSE IF ~config.EnableWorker THEN NilWorker
    ELSE IF ~config.QueueConfig THEN NilWorker
    ELSE IF ~config.RepositoryManager THEN NilWorker
    ELSE IF config.newWorkerErr THEN [NilWorker EXCEPT !.err = TRUE]
    ELSE [isNil |-> FALSE, cancelled |-> FALSE, err |-> FALSE]

\* NewWorker: the worker and whether an error comes with it.  The worker is
\* nil, without error, when the configuration is nil, disabled or lacks a
\* collaborator; it is nil with the error of queue.NewWorker when that one
\* fails; otherwise it holds a fresh, not cancelled, context.
NewWorker(config) ==
    IF config.isNil THEN NilWorker
    ELSE IF ~config.EnableWorker THEN NilWorker
    ELSE IF ~config.QueueConfig THEN NilWorker
    ELSE IF ~config.RepositoryManager THEN NilWorker
    ELSE IF ~config.BaseExecutor THEN NilWorker
    ELSE IF config.newWorkerErr THEN [NilWorker EXCEPT !.err = TRUE]
    ELSE [isNil |-> FALSE, cancelled |-> FALSE, err |-> FALSE]

\* The queue worker: stopped, running or shutting-down; the tasks waiting in
\* the queue and the tasks it is executing.
StoppedQueueWorker(pending) ==
    [state |-> "stopped", pending |-> pending, inflight |-> 0,
     completed |-> 0, aborted |-> 0, graceElapsed |-> FALSE]

NoStop ==
    [invoked |-> "", returned |-> "", inflight |-> 0, aborted |-> 0,
     graceElapsed |-> FALSE, starts |-> 0, run |-> 0]

NoHistory ==
    [config |-> NilConfig, nilCalls |-> 0,
     starts |-> 0, stopCalls |-> 0, shutdownCalls |-> 0,
     lastStop |-> [c \in Callers |-> NoStop]]

\* One more call of Start or Stop on a nil worker: it returns at once.
NilCall ==
    /\ hist.nilCalls < MaxStarts
    /\ hist' = [hist EXCEPT !.nilCalls = @ + 1]

IdleCaller ==
    [pc |-> "idle", invoked |-> ""]

\* The worker part of a state in which no worker is configured.
NoWorker ==
    /\ worker = NilWorker
    /\ qw = StoppedQueueWorker(0)
    /\ run = 0
    /\ wpc = [c \in Callers |-> IdleCaller]
    /\ sig = "none"
    /\ hist = NoHistory

\* What a returning Stop leaves behind.
StopRecord(c, q) ==
    [invoked |-> wpc[c].invoked, returned |-> q.state,
     inflight |-> q.inflight, aborted |-> q.aborted,
     graceElapsed |-> q.graceElapsed, starts |-> hist.starts, run |-> run]

\* Start: a nil worker does nothing; otherwise a goroutine is started that
\* will call queueWorker.Run().
WorkerStart ==
    /\ wpc["main"].pc = "idle"
    /\ hist.starts < MaxStarts
    /\ IF worker.isNil
       THEN NilCall /\ UNCHANGED run
       ELSE /\ run' = run + 1
            /\ hist' = [hist EXCEPT !.starts = @ + 1]
    /\ UNCHANGED <<store, submission, batchVars, resumeVars,
                 worker, qw, wpc, sig>>

\* StartWithGracefulShutdown: Start, then a goroutine that waits for a
\* termination signal and calls Stop.
WorkerStartWithGracefulShutdown ==
    /\ wpc["main"].pc = "idle"
    /\ hist.starts < MaxStarts
    /\ sig = "none"
    /\ IF worker.isNil
       THEN NilCall /\ UNCHANGED <<run, sig>>
       ELSE /\ run' = run + 1
            /\ hist' = [hist EXCEPT !.starts = @ + 1]
            /\ sig' = "waiting"
    /\ UNCHANGED <<store, submission, batchVars, resumeVars, worker, qw, wpc>>

\* Queue transport: queueWorker.Run() in the goroutine of Start.  A stopped
\* queue worker starts to consume; otherwise Run fails and is logged.
QueueWorkerRun ==
    /\ run > 0
    /\ run' = run - 1
    /\ qw' = IF qw.state = "stopped"
             THEN [qw EXCEPT !.state = "running", !.aborted = 0,
                             !.graceElapsed = FALSE]
             ELSE qw
    /\ UNCHANGED <<store, submission, batchVars, resumeVars,
                 worker, wpc, sig, hist>>

\* Queue transport: a running queue worker pulls a task.
QueueWorkerPull ==
    /\ qw.state = "running"
    /\ qw.pending > 0
    /\ qw' = [qw EXCEPT !.pending = @ - 1, !.inflight = @ + 1]
    /\ UNCHANGED <<store, submission, batchVars, resumeVars,
                 worker, run, wpc, sig, hist>>

\* Queue transport: a task that is executing finishes.
QueueWorkerTaskDone ==
    /\ qw.inflight > 0
    /\ qw' = [qw EXCEPT !.inflight = @ - 1, !.completed = @ + 1]
    /\ UNCHANGED <<store, submission, batchVars, resumeVars,
                 worker, run, wpc, sig, hist>>

\* Queue transport: the grace period of a shutdown elapses; the tasks still
\* executing are given back to the queue.
QueueWorkerGraceElapsed ==
    /\ qw.state = "shutting-down"
    /\ qw.inflight > 0
    /\ qw' = [qw EXCEPT !.pending = @ + qw.inflight, !.inflight = 0,
                        !.aborted = qw.inflight, !.graceElapsed = TRUE]
    /\ UNCHANGED <<store, submission, batchVars, resumeVars,
                 worker, run, wpc, sig, hist>>

\* Queue transport: queueWorker.Shutdown() is called.  A running queue
\* worker stops pulling; a stopped one stays as it is.
ShutdownCalled(q) ==
    IF q.state = "running" THEN [q EXCEPT !.state = "shutting-down"] ELSE q

\* The caller may call Stop: the signal goroutine does so once, after the
\* signal has come.
MayStop(c) ==
    /\ wpc[c].pc = "idle"
    /\ c = "signal" => sig = "waiting"
    /\ hist.stopCalls < MaxStops

\* Variant: Stop cancels the context and does not shut the queue worker down.
WorkerStopCancelOnly(c) ==
    /\ MayStop(c)
    /\ sig' = IF c = "signal" THEN "fired" ELSE sig
    /\ IF worker.isNil
       THEN NilCall /\ UNCHANGED worker
       ELSE /\ worker' = [worker EXCEPT !.cancelled = TRUE]
            /\ hist' = [hist EXCEPT
                   !.stopCalls = @ + 1,
                   !.lastStop[c] = [StopRecord(c, qw) EXCEPT
                                       !.invoked = qw.state]]
    /\ UNCHANGED <<store, submission, batchVars, resumeVars, qw, run, wpc>>

\* Variant: Stop calls queueWorker.Shutdown() in a goroutine of its own and
\* returns without waiting for it.
WorkerStopAsyncShutdown(c) ==
    /\ MayStop(c)
    /\ sig' = IF c = "signal" THEN "fired" ELSE sig
    /\ IF worker.isNil
       THEN NilCall /\ UNCHANGED <<worker, qw>>
       ELSE /\ worker' = [worker EXCEPT !.cancelled = TRUE]
            /\ qw' = ShutdownCalled(qw)
            /\ hist' = [hist EXCEPT
                   !.stopCalls = @ + 1,
                   !.shutdownCalls = @ + 1,
                   !.lastStop[c] = [StopRecord(c, qw') EXCEPT
                                       !.invoked = qw.state]]
    /\ UNCHANGED <<store, submission, batchVars, resumeVars, run, wpc>>

\* Stop: a nil worker does nothing; otherwise the context is cancelled and
\* queueWorker.Shutdown() is called, which returns at once on a stopped
\* queue worker and blocks on a running one.
WorkerStop(c) ==
    /\ MayStop(c)
    /\ sig' = IF c = "signal" THEN "fired" ELSE sig
    /\ IF worker.isNil
       THEN NilCall /\ UNCHANGED <<worker, qw, wpc>>
       ELSE /\ worker' = [worker EXCEPT !.cancelled = TRUE]
            /\ qw' = ShutdownCalled(qw)
            /\ IF qw.state = "stopped"
               THEN /\ UNCHANGED wpc
                    /\ hist' = [hist EXCEPT
                           !.stopCalls = @ + 1,
                           !.shutdownCalls = @ + 1,
                           !.lastStop[c] = [StopRecord(c, qw) EXCEPT
                                               !.invoked = qw.state]]
               ELSE /\ wpc' = [wpc EXCEPT ![c] = [pc |-> "shutdown",
                                                  invoked |-> qw.state]]
                    /\ hist' = [hist EXCEPT !.stopCalls = @ + 1,
                                            !.shutdownCalls = @ + 1]
    /\ UNCHANGED <<store, submission, batchVars, resumeVars, run>>

\* queueWorker.Shutdown() returns once no task is executing: the queue
\* worker is stopped, and every Stop that waits in Shutdown returns.
WorkerStopReturn ==
    /\ qw.state = "shutting-down"
    /\ qw.inflight = 0
    /\ qw' = [qw EXCEPT !.state = "stopped"]
    /\ wpc' = [c \in Callers |-> IdleCaller]
    /\ hist' = [hist EXCEPT !.lastStop =
                   [c \in Callers |->
                       IF wpc[c].pc = "shutdown" THEN StopRecord(c, qw')
                       ELSE hist.lastStop[c]]]
    /\ UNCHANGED <<store, submission, batchVars, resumeVars, worker, run, sig>>

(***************************************************************************)
(* handlers.ResumeExecution and handlers.ResumeByCorrelation.              *)
(*   calls       the invocations of sm.ResumeExecution made for the        *)
(*               request, in order, each with its outcome                  *)
(*   found       sm.FindWaitingExecutionsByCorrelation has answered        *)
(*   waiting     the executions it returned                                *)
(*   idx         position of the loop over waiting                         *)
(*   resumedIDs  the ids appended so far                                   *)
(***************************************************************************)
IdleResume ==
    [pc |-> "idle", op |-> "", hasRepo |-> FALSE, bindOk |-> FALSE,
     executionID |-> 0, stateMachineID |-> "", value |-> "",
     found |-> FALSE, waiting |-> <<>>, idx |-> 0, resumedIDs |-> <<>>,
     calls |-> <<>>]

ResumeError(code, error) ==
    [code |-> code, error |-> error, status |-> "", resumedCount |-> 0,
     executionIds |-> <<>>]

NoResumeResponse ==
    ResumeError(0, "")

\* The request as the handler sees it when it starts.
ResumeRequest(op, hasRepo, bindOk, executionID, stateMachineID, value) ==
    [IdleResume EXCEPT !.op = op, !.hasRepo = hasRepo, !.bindOk = bindOk,
                       !.executionID = executionID,
                       !.stateMachineID = stateMachineID, !.value = value]

\* Execution engine: sm.ResumeExecution(execCtx).  A successful resume takes
\* the record out of PAUSED; a failed one leaves it or marks it FAILED.
ResumeOutcomes(ok) ==
    IF ok THEN {"RUNNING", "SUCCEEDED"} ELSE {"same", "FAILED"}

EngineResume(st, id, outcome) ==
    IF outcome = "same" THEN st
    ELSE [st EXCEPT ![id].status = outcome]

\* Variant: the handler rejects only the executions that have ended, as
\* StopExecution does.
ResumeExecutionEntryTerminalCheck(r, smErr) ==
    IF ~r.hasRepo
    THEN [resp |-> ResumeError(HttpInternalServerError,
                               "Repository manager not configured"),
          r |-> [r EXCEPT !.pc = "done"]]
    ELSE IF ~r.bindOk
    THEN [resp |-> ResumeError(HttpBadRequest, "Invalid request"),
          r |-> [r EXCEPT !.pc = "done"]]
    ELSE IF r.executionID \notin ExecIds
    THEN [resp |-> ResumeError(HttpNotFound, "Execution not found"),
          r |-> [r EXCEPT !.pc = "done"]]
    ELSE IF store[r.executionID].status \in {"SUCCEEDED", "FAILED", "CANCELLED"}
    THEN [resp |-> ResumeError(HttpBadRequest, "Execution is not paused"),
          r |-> [r EXCEPT !.pc = "done"]]
    ELSE IF smErr
    THEN [resp |-> ResumeError(HttpNotFound, "State machine not found"),
          r |-> [r EXCEPT !.pc = "done"]]
    ELSE [resp |-> NoResumeResponse, r |-> [r EXCEPT !.pc = "call"]]

\* ResumeExecution from its entry to the call of sm.ResumeExecution.
ResumeExecutionEntry(r, smErr) ==
    IF ~r.hasRepo
    THEN [resp |-> ResumeError(HttpInternalServerError,
                               "Repository manager not configured"),
          r |-> [r EXCEPT !.pc = "done"]]
    ELSE IF ~r.bindOk
    THEN [resp |-> ResumeError(HttpBadRequest, "Invalid request"),
          r |-> [r EXCEPT !.pc = "done"]]
    ELSE IF r.executionID \notin ExecIds
    THEN [resp |-> ResumeError(HttpNotFound, "Execution not found"),
          r |-> [r EXCEPT !.pc = "done"]]
    ELSE IF store[r.executionID].status # "PAUSED"
    THEN [resp |-> ResumeError(HttpBadRequest, "Execution is not paused"),
          r |-> [r EXCEPT !.pc = "done"]]
    ELSE IF smErr
    THEN [resp |-> ResumeError(HttpNotFound, "State machine not found"),
          r |-> [r EXCEPT !.pc = "done"]]
    ELSE [resp |-> NoResumeResponse, r |-> [r EXCEPT !.pc = "call"]]

ResumeExecutionBegin(c) ==
    /\ resume[c].pc = "idle"
    /\ \E hasRepo \in BOOLEAN, bindOk \in BOOLEAN, smErr \in BOOLEAN,
          executionID \in ExecIds \cup {0} :
          LET e == ResumeExecutionEntry(
                       ResumeRequest("ResumeExecution", hasRepo, bindOk,
                                     executionID, "", ""), smErr)
          IN  /\ resume' = [resume EXCEPT ![c] = e.r]
              /\ rresp' = [rresp EXCEPT ![c] = e.resp]
    /\ UNCHANGED <<store, batchVars, workerVars, submission>>

\* The call of sm.ResumeExecution and the answer of ResumeExecution.
ResumeExecutionCall(c) ==
    /\ resume[c].pc = "call"
    /\ \E ok \in BOOLEAN :
       \E outcome \in ResumeOutcomes(ok) :
          LET id == resume[c].executionID
              st == EngineResume(store, id, outcome)
          IN  /\ store' = st
              /\ resume' = [resume EXCEPT
                     ![c].pc = "done",
                     ![c].calls = Append(@, [id |-> id, ok |-> ok])]
              /\ rresp' = [rresp EXCEPT ![c] =
                     IF ok
                     THEN [ResumeError(HttpOK, "") EXCEPT
                              !.status = st[id].status]
                     ELSE ResumeError(HttpInternalServerError,
                                      "Failed to resume execution")]
    /\ UNCHANGED <<batchVars, workerVars, submission>>

\* Execution engine: sm.FindWaitingExecutionsByCorrelation(key, value): the
\* PAUSED executions of the definition that carry the correlation pair.
FindWaitingExecutionsByCorrelation(stateMachineID, value) ==
    SeqOfSet({id \in ExecIds : /\ store[id].def = stateMachineID
                               /\ store[id].status = "PAUSED"
                               /\ store[id].corr = value})

\* Variant: an empty list of waiting executions is not answered with 404.
ResumeByCorrelationEntryNoEmptyCheck(r, findErr) ==
    IF ~r.hasRepo
    THEN [resp |-> ResumeError(HttpInternalServerError,
                               "Repository manager not configured"),
          r |-> [r EXCEPT !.pc = "done"]]
    ELSE IF ~r.bindOk
    THEN [resp |-> ResumeError(HttpBadRequest, "Invalid request"),
          r |-> [r EXCEPT !.pc = "done"]]
    ELSE IF r.stateMachineID \notin Defs
    THEN [resp |-> ResumeError(HttpNotFound, "State machine not found"),
          r |-> [r EXCEPT !.pc = "done"]]
    ELSE IF findErr
    THEN [resp |-> ResumeError(HttpInternalServerError,
                               "Failed to find waiting executions"),
          r |-> [r EXCEPT !.pc = "done"]]
    ELSE LET waitingExecutions ==
                 FindWaitingExecutionsByCorrelation(r.stateMachineID, r.value)
         IN  [resp |-> NoResumeResponse,
              r |-> [r EXCEPT !.pc = "loop", !.found = TRUE,
                              !.waiting = waitingExecutions, !.idx = 1]]

\* ResumeByCorrelation from its entry to the loop over the waiting executions.
ResumeByCorrelationEntry(r, findErr) ==
    IF ~r.hasRepo
    THEN [resp |-> ResumeError(HttpInternalServerError,
                               "Repository manager not configured"),
          r |-> [r EXCEPT !.pc = "done"]]
    ELSE IF ~r.bindOk
    THEN [resp |-> ResumeError(HttpBadRequest, "Invalid request"),
          r |-> [r EXCEPT !.pc = "done"]]
    ELSE IF r.stateMachineID \notin Defs
    THEN [resp |-> ResumeError(HttpNotFound, "State machine not found"),
          r |-> [r EXCEPT !.pc = "done"]]
    ELSE IF findErr
    THEN [resp |-> ResumeError(HttpInternalServerError,
                               "Failed to find waiting executions"),
          r |-> [r EXCEPT !.pc = "done"]]
    ELSE LET waitingExecutions ==
                 FindWaitingExecutionsByCorrelation(r.stateMachineID, r.value)
         IN  IF Len(waitingExecutions) = 0
             THEN [resp |-> ResumeError(HttpNotFound,
                                        "No waiting executions found"),
                   r |-> [r EXCEPT !.pc = "done", !.found = TRUE]]
             ELSE [resp |-> NoResumeResponse,
                   r |-> [r EXCEPT !.pc = "loop", !.found = TRUE,
                                   !.waiting = waitingExecutions, !.idx = 1]]

ResumeByCorrelationBegin(c) ==
    /\ resume[c].pc = "idle"
    /\ \E hasRepo \in BOOLEAN, bindOk \in BOOLEAN, findErr \in BOOLEAN,
          stateMachineID \in DefIds, value \in CorrValues :
          LET e == ResumeByCorrelationEntry(
                       ResumeRequest("ResumeByCorrelation", hasRepo, bindOk,
                                     0, stateMachineID, value), findErr)
          IN  /\ resume' = [resume EXCEPT ![c] = e.r]
              /\ rresp' = [rresp EXCEPT ![c] = e.resp]
    /\ UNCHANGED <<store, batchVars, workerVars, submission>>

\* Variant: the id is appended whether or not the resume call failed.
ResumeLoopBodyIgnoresError(r, ok) ==
    LET id == r.waiting[r.idx]
    IN  [r EXCEPT !.idx = @ + 1,
                  !.calls = Append(@, [id |-> id, ok |-> ok]),
                  !.resumedIDs = Append(@, id)]

\* Variant: the loop is left at the first resume call that fails.
ResumeLoopBodyStopsOnError(r, ok) ==
    LET id == r.waiting[r.idx]
    IN  [r EXCEPT !.idx = IF ok THEN @ + 1 ELSE Len(r.waiting) + 1,
                  !.calls = Append(@, [id |-> id, ok |-> ok]),
                  !.resumedIDs = IF ok THEN Append(@, id) ELSE @]

\* One iteration of "for _, record := range waitingExecutions", given the
\* outcome of its call of sm.ResumeExecution.
ResumeLoopBody(r, ok) ==
    LET id == r.waiting[r.idx]
    IN  [r EXCEPT !.idx = @ + 1,
                  !.calls = Append(@, [id |-> id, ok |-> ok]),
                  !.resumedIDs = IF ok THEN Append(@, id) ELSE @]

ResumeByCorrelationStep(c) ==
    /\ resume[c].pc = "loop"
    /\ resume[c].idx <= Len(resume[c].waiting)
    /\ \E ok \in BOOLEAN :
       \E outcome \in ResumeOutcomes(ok) :
          /\ store' = EngineResume(store, resume[c].waiting[resume[c].idx],
                                   outcome)
          /\ resume' = [resume EXCEPT ![c] = ResumeLoopBody(resume[c], ok)]
    /\ UNCHANGED <<rresp, batchVars, workerVars, submission>>

\* models.ResumeByCorrelationResponse
ResumeByCorrelationResponse(resumedIDs) ==
    [ResumeError(HttpOK, "") EXCEPT !.resumedCount = Len(resumedIDs),
                                    !.executionIds = resumedIDs]

ResumeByCorrelationReturn(c) ==
    /\ resume[c].pc = "loop"
    /\ resume[c].idx > Len(resume[c].waiting)
    /\ resume' = [resume EXCEPT ![c].pc = "done"]
    /\ rresp' = [rresp EXCEPT ![c] =
                    ResumeByCorrelationResponse(resume[c].resumedIDs)]
    /\ UNCHANGED <<store, batchVars, workerVars, submission>>

ResumeStores ==
    [ExecIds -> [def : Defs, status : {"PAUSED", "RUNNING", "SUCCEEDED"},
                 corr : CorrValues]]

ResumeInit ==
    /\ store \in ResumeStores
    /\ batch = IdleBatch
    /\ bresp = NoResponse
    /\ derive = IdleDerive(NoRegistry)
    /\ built = NothingBuilt
    /\ submission = IdleSubmission
    /\ resume = [c \in Clients |-> IdleResume]
    /\ rresp = [c \in Clients |-> NoResumeResponse]
    /\ NoWorker

\* The resume requests are made one at a time, by the first client.
ResumeNext ==
    \/ ResumeExecutionBegin("c1")
    \/ ResumeExecutionCall("c1")
    \/ ResumeByCorrelationBegin("c1")
    \/ ResumeByCorrelationStep("c1")
    \/ ResumeByCorrelationReturn("c1")

ResumeSpec ==
    ResumeInit /\ [][ResumeNext]_vars

(***************************************************************************)
(* Execution control endpoints: StopExecution, GetExecution and            *)
(* FindWaitingExecutions, and the resume endpoints called by two clients   *)
(* at once.                                                                *)
(***************************************************************************)

Terminal ==
    {"SUCCEEDED", "FAILED", "CANCELLED"}

\* Variant: an execution that is already CANCELLED is not taken as stopped.
StopExecutionCallNoCancelledCheck(st, hasRepo, executionID) ==
    IF ~hasRepo
    THEN [resp |-> ResumeError(HttpInternalServerError,
                               "Repository manager not configured"),
          st |-> st]
    ELSE IF executionID \notin ExecIds
    THEN [resp |-> ResumeError(HttpNotFound, "Execution not found"), st |-> st]
    ELSE IF st[executionID].status \in {"SUCCEEDED", "FAILED"}
    THEN [resp |-> ResumeError(HttpBadRequest, "Execution already stopped"),
          st |-> st]
    ELSE [resp |-> [ResumeError(HttpOK, "") EXCEPT !.status = "CANCELLED"],
          st |-> st]

\* StopExecution: the answer and the store the handler leaves.  The handler
\* reads the record and answers; no statement of it writes to the store.
StopExecutionCall(st, hasRepo, executionID) ==
    IF ~hasRepo
    THEN [resp |-> ResumeError(HttpInternalServerError,
                               "Repository manager not configured"),
          st |-> st]
    ELSE IF executionID \notin ExecIds
    THEN [resp |-> ResumeError(HttpNotFound, "Execution not found"), st |-> st]
    ELSE IF st[executionID].status \in {"SUCCEEDED", "FAILED", "CANCELLED"}
    THEN [resp |-> ResumeError(HttpBadRequest, "Execution already stopped"),
          st |-> st]
    ELSE [resp |-> [ResumeError(HttpOK, "") EXCEPT !.status = "CANCELLED"],
          st |-> st]

StopExecution(c) ==
    /\ resume[c].pc = "idle"
    /\ \E hasRepo \in BOOLEAN, executionID \in ExecIds \cup {0} :
          LET e == StopExecutionCall(store, hasRepo, executionID)
          IN  /\ store' = e.st
              /\ rresp' = [rresp EXCEPT ![c] = e.resp]
              /\ resume' = [resume EXCEPT ![c] =
                     [ResumeRequest("StopExecution", hasRepo, TRUE,
                                    executionID, "", "") EXCEPT !.pc = "done"]]
    /\ UNCHANGED <<batchVars, workerVars, submission>>

\* GetExecution: the answer for the record as it is stored.
GetExecutionResponse(st, hasRepo, executionID) ==
    IF ~hasRepo
    THEN ResumeError(HttpInternalServerError,
                     "Repository manager not configured")
    ELSE IF executionID \notin ExecIds
    THEN ResumeError(HttpNotFound, "Execution not found")
    ELSE [ResumeError(HttpOK, "") EXCEPT !.status = st[executionID].status]

GetExecution(c) ==
    /\ resume[c].pc = "idle"
    /\ \E hasRepo \in BOOLEAN, executionID \in ExecIds \cup {0} :
          /\ rresp' = [rresp EXCEPT ![c] =
                 GetExecutionResponse(store, hasRepo, executionID)]
          /\ resume' = [resume EXCEPT ![c] =
                 [ResumeRequest("GetExecution", hasRepo, TRUE,
                                executionID, "", "") EXCEPT !.pc = "done"]]
    /\ UNCHANGED <<store, batchVars, workerVars, submission>>

\* FindWaitingExecutions: the answer for a correlation value of the query
\* string ("" when the parameter is missing).
FindWaitingExecutionsResponse(hasRepo, stateMachineID, value, findErr) ==
    IF ~hasRepo
    THEN ResumeError(HttpInternalServerError,
                     "Repository manager not configured")
    ELSE IF value = ""
    THEN ResumeError(HttpBadRequest, "Missing parameters")
    ELSE IF stateMachineID \notin Defs
    THEN ResumeError(HttpNotFound, "State machine not found")
    ELSE IF findErr
    THEN ResumeError(HttpInternalServerError,
                     "Failed to find waiting executions")
    ELSE [ResumeError(HttpOK, "") EXCEPT !.executionIds =
             FindWaitingExecutionsByCorrelation(stateMachineID, value)]

FindWaitingExecutions(c) ==
    /\ resume[c].pc = "idle"
    /\ \E hasRepo \in BOOLEAN, findErr \in BOOLEAN,
          stateMachineID \in DefIds, value \in CorrValues \cup {""} :
          /\ rresp' = [rresp EXCEPT ![c] =
                 FindWaitingExecutionsResponse(hasRepo, stateMachineID,
                                               value, findErr)]
          /\ resume' = [resume EXCEPT ![c] =
                 [ResumeRequest("FindWaitingExecutions", hasRepo, TRUE, 0,
                                stateMachineID, value) EXCEPT !.pc = "done"]]
    /\ UNCHANGED <<store, batchVars, workerVars, submission>>

\* The records the control endpoints work on.  RUNNING and FAILED records
\* come about when a PAUSED one is resumed.
ControlStores ==
    [ExecIds -> [def : {"A"}, status : {"PAUSED", "SUCCEEDED", "CANCELLED"},
                 corr : {"12345"}]]

ControlInit ==
    /\ store \in ControlStores
    /\ batch = IdleBatch
    /\ bresp = NoResponse
    /\ derive = IdleDerive(NoRegistry)
    /\ built = NothingBuilt
    /\ submission = IdleSubmission
    /\ resume = [c \in Clients |-> IdleResume]
    /\ rresp = [c \in Clients |-> NoResumeResponse]
    /\ NoWorker

\* Each client makes one request; the requests of the two clients interleave.
ControlNext ==
    \E c \in Clients :
       \/ ResumeExecutionBegin(c)
       \/ ResumeExecutionCall(c)
       \/ ResumeByCorrelationBegin(c)
       \/ ResumeByCorrelationStep(c)
       \/ ResumeByCorrelationReturn(c)
       \/ StopExecution(c)
       \/ GetExecution(c)
       \/ FindWaitingExecutions(c)

ControlSpec ==
    ControlInit /\ [][ControlNext]_vars

SubmitInit ==
    /\ store = [id \in ExecIds |->
                   [def |-> "A", status |-> "SUCCEEDED", corr |-> "12345"]]
    /\ batch = IdleBatch
    /\ bresp = NoResponse
    /\ derive = IdleDerive(NoRegistry)
    /\ built = NothingBuilt
    /\ submission = IdleSubmission
    /\ resume = [c \in Clients |-> IdleResume]
    /\ rresp = [c \in Clients |-> NoResumeResponse]
    /\ NoWorker

SubmitNext ==
    \/ StartExecution
    \/ EnqueueExecution

SubmitSpec ==
    SubmitInit /\ [][SubmitNext]_vars

WorkerInit ==
    /\ store = [id \in ExecIds |->
                   [def |-> "A", status |-> "SUCCEEDED", corr |-> "12345"]]
    /\ batch = IdleBatch
    /\ bresp = NoResponse
    /\ derive = IdleDerive(NoRegistry)
    /\ built = NothingBuilt
    /\ submission = IdleSubmission
    /\ resume = [c \in Clients |-> IdleResume]
    /\ rresp = [c \in Clients |-> NoResumeResponse]
    /\ \E config \in WorkerConfigs :
          /\ worker = NewWorker(config)
          /\ hist = [NoHistory EXCEPT !.config = config]
    /\ \E pending \in 0 .. MaxTasks : qw = StoppedQueueWorker(pending)
    /\ run = 0
    /\ wpc = [c \in Callers |-> IdleCaller]
    /\ sig = "none"

WorkerNext ==
    \/ WorkerStart
    \/ WorkerStartWithGracefulShutdown
    \/ QueueWorkerRun
    \/ QueueWorkerPull
    \/ QueueWorkerTaskDone
    \/ QueueWorkerGraceElapsed
    \/ \E c \in Callers : WorkerStop(c)
    \/ WorkerStopReturn

WorkerSpec ==
    WorkerInit /\ [][WorkerNext]_vars

DeriveInit ==
    /\ store = [id \in ExecIds |->
                   [def |-> "A", status |-> "SUCCEEDED", corr |-> "12345"]]
    /\ batch = IdleBatch
    /\ bresp = NoResponse
    /\ \E registry \in Registries : derive = IdleDerive(registry)
    /\ built = NothingBuilt
    /\ submission = IdleSubmission
    /\ resume = [c \in Clients |-> IdleResume]
    /\ rresp = [c \in Clients |-> NoResumeResponse]
    /\ NoWorker

DeriveNext ==
    \/ ComposeOptions
    \/ DeriveExecution
    \/ TaskRedelivered
    \/ DeriveReturn

DeriveSpec ==
    DeriveInit /\ [][DeriveNext]_vars


FilterInit ==
    /\ store = [id \in ExecIds |->
                   [def |-> "A", status |-> "SUCCEEDED", corr |-> "12345"]]
    /\ batch = IdleBatch
    /\ bresp = NoResponse
    /\ derive = IdleDerive(NoRegistry)
    /\ built = NothingBuilt
    /\ submission = IdleSubmission
    /\ resume = [c \in Clients |-> IdleResume]
    /\ rresp = [c \in Clients |-> NoResumeResponse]
    /\ NoWorker

FilterNext ==
    BuildSourceFilter

FilterSpec ==
    FilterInit /\ [][FilterNext]_vars

BatchStores ==
    [ExecIds -> [def : Defs, status : {"SUCCEEDED", "FAILED"},
                 corr : {"12345"}]]

BatchInit ==
    /\ store \in BatchStores
    /\ batch = IdleBatch
    /\ bresp = NoResponse
    /\ derive = IdleDerive(NoRegistry)
    /\ built = NothingBuilt
    /\ submission = IdleSubmission
    /\ resume = [c \in Clients |-> IdleResume]
    /\ rresp = [c \in Clients |-> NoResumeResponse]
    /\ NoWorker

BatchNext ==
    \/ ExecuteBatchBegin
    \/ DispatchSubmit
    \/ DispatchItemDone
    \/ ExecuteBatchReturn

BatchSpec ==
    BatchInit /\ [][BatchNext]_vars

TypeBatch ==
    /\ batch.pc \in {"idle", "dispatch", "done"}
    /\ batch.next \in 0 .. Len(batch.matched)


(***************************************************************************)
(* Properties of the batch handler.                                        *)
(***************************************************************************)
BatchAnswered ==
    batch.pc = "done" /\ batch.queried /\ bresp.code = HttpOK

\* The concurrency bound the request asks for.
RequestedBound(b) ==
    IF b.reqConcurrency = 0 THEN DefaultConcurrency ELSE b.reqConcurrency

\* C1: for a batch run with stopOnError = false, whatever items fail,
\* totalEnqueued + totalFailed equals the number of matched source records:
\* the failed items are counted as failed and all the others as enqueued.
C1_CountsCoverMatched ==
    (BatchAnswered /\ ~batch.reqStopOnError) =>
        /\ bresp.totalEnqueued + bresp.totalFailed = Len(batch.matched)
        /\ bresp.totalFailed = Cardinality(batch.failed)
        /\ batch.failed \subseteq 1 .. Len(batch.matched)

C1_Witness ==
    /\ BatchAnswered
    /\ ~batch.reqStopOnError
    /\ Len(batch.matched) = NumExecs
    /\ bresp.totalFailed >= 1
    /\ bresp.totalEnqueued >= 1
    /\ 1 \in batch.failed

\* C2: for a batch run with stopOnError = true, no item is submitted once an
\* item has failed; the items in flight at that moment still finish and are
\* counted; the answer has enqueued + failed = the number of submitted items,
\* which is at most the matched count, so an item never submitted is counted
\* neither as enqueued nor as failed.
C2_StopOnErrorHalts ==
    /\ [][(batch.pc = "dispatch" /\ batch.reqStopOnError /\ batch.failed # {})
            => batch'.next = batch.next]_vars
    /\ []((BatchAnswered /\ batch.reqStopOnError) =>
            /\ bresp.totalEnqueued + bresp.totalFailed = batch.next
            /\ batch.next <= Len(batch.matched)
            /\ bresp.totalFailed = Cardinality(batch.failed)
            /\ (batch.next < Len(batch.matched) => batch.failed # {}))

C2_Witness ==
    /\ BatchAnswered
    /\ batch.reqStopOnError
    /\ batch.next < Len(batch.matched)
    /\ Cardinality(batch.failed) >= 2

\* C3: while a batch is dispatched, the number of derived executions in
\* flight is at most ConcurrentBatches: the request's concurrency, or 10 when
\* the request gives 0.
C3_InFlightBounded ==
    batch.pc = "dispatch" =>
        Cardinality(batch.inflight) <= RequestedBound(batch)

\* C4: a filter that matches no source record is answered with
\* totalEnqueued = 0, totalFailed = 0 and no error, whatever stopOnError and
\* the mode are.
C4_ZeroMatches ==
    (batch.pc = "done" /\ batch.queried /\ batch.matched = <<>>) =>
        /\ bresp.code = HttpOK
        /\ bresp.error = ""
        /\ bresp.totalEnqueued = 0
        /\ bresp.totalFailed = 0

C4_Witness ==
    /\ batch.pc = "done"
    /\ batch.queried
    /\ batch.matched = <<>>
    /\ batch.reqStopOnError
    /\ batch.distributed
    /\ bresp.code = HttpOK


(***************************************************************************)
(* Properties of the resume handlers.                                      *)
(***************************************************************************)
StateConflict ==
    ResumeError(HttpBadRequest, "Execution is not paused")

DefinitionNotFound ==
    ResumeError(HttpNotFound, "State machine not found")

NoWaitingExecutions ==
    ResumeError(HttpNotFound, "No waiting executions found")

SeqRange(q) ==
    {q[i] : i \in 1 .. Len(q)}

ResumedByCorrelation(c) ==
    /\ resume[c].pc = "done"
    /\ resume[c].op = "ResumeByCorrelation"
    /\ rresp[c].code = HttpOK

\* The ids of the executions whose resume call succeeded.
SucceededCalls(c) ==
    {resume[c].calls[i].id :
        i \in {j \in 1 .. Len(resume[c].calls) : resume[c].calls[j].ok}}

\* C5: ResumeExecution on an execution whose status is not PAUSED answers
\* with the state-conflict error, does not invoke sm.ResumeExecution and
\* leaves every execution record as it was.
C5_ResumeNotPausedConflict ==
    [][\A c \in Clients :
         (/\ resume[c].pc = "idle"
          /\ resume'[c].op = "ResumeExecution"
          /\ resume'[c].hasRepo
          /\ resume'[c].bindOk
          /\ resume'[c].executionID \in ExecIds
          /\ store[resume'[c].executionID].status # "PAUSED")
         => (/\ resume'[c].pc = "done"
             /\ rresp'[c] = StateConflict
             /\ resume'[c].calls = <<>>
             /\ store' = store)]_vars

C5_Witness ==
    /\ resume["c1"].pc = "done"
    /\ resume["c1"].op = "ResumeExecution"
    /\ rresp["c1"] = StateConflict
    /\ resume["c1"].executionID \in ExecIds
    /\ store[resume["c1"].executionID].status = "RUNNING"
    /\ resume["c1"].calls = <<>>

\* C6: ResumeByCorrelation over N matched paused executions returns exactly
\* the ids of the matched executions whose resume call succeeded, each once,
\* so between 0 and N ids, and resumedCount is the length of that list.
C6_ResumedIdsAreSucceeded ==
    \A c \in Clients :
        ResumedByCorrelation(c) =>
            /\ rresp[c].resumedCount = Len(rresp[c].executionIds)
            /\ SeqRange(rresp[c].executionIds) = SucceededCalls(c)
            /\ Cardinality(SeqRange(rresp[c].executionIds))
                   = Len(rresp[c].executionIds)
            /\ SeqRange(rresp[c].executionIds)
                   \subseteq SeqRange(resume[c].waiting)
            /\ rresp[c].resumedCount >= 0
            /\ rresp[c].resumedCount <= Len(resume[c].waiting)

C6_Witness ==
    /\ ResumedByCorrelation("c1")
    /\ Len(resume["c1"].waiting) = NumExecs
    /\ rresp["c1"].resumedCount = NumExecs - 1
    /\ ~resume["c1"].calls[NumExecs].ok

\* C7: in ResumeByCorrelation a failed resume does not keep the other
\* matched executions from being attempted: sm.ResumeExecution is invoked
\* once for every matched execution, in order, and when no call fails all
\* the matched ids are returned.
C7_EveryMatchAttempted ==
    \A c \in Clients :
        /\ (resume[c].pc = "loop" =>
               /\ resume[c].idx = Len(resume[c].calls) + 1
               /\ resume[c].idx <= Len(resume[c].waiting) + 1
               /\ \A i \in 1 .. Len(resume[c].calls) :
                      resume[c].calls[i].id = resume[c].waiting[i])
        /\ (ResumedByCorrelation(c) =>
               /\ Len(resume[c].calls) = Len(resume[c].waiting)
               /\ \A i \in 1 .. Len(resume[c].calls) :
                      resume[c].calls[i].id = resume[c].waiting[i]
               /\ ((\A i \in 1 .. Len(resume[c].calls) :
                       resume[c].calls[i].ok)
                   => /\ rresp[c].executionIds = resume[c].waiting
                      /\ rresp[c].resumedCount = Len(resume[c].waiting)))

C7_Witness ==
    /\ ResumedByCorrelation("c1")
    /\ Len(resume["c1"].waiting) = NumExecs
    /\ ~resume["c1"].calls[1].ok
    /\ resume["c1"].calls[2].ok
    /\ rresp["c1"].resumedCount = NumExecs - 1

\* C8: when ResumeByCorrelation finds no matching paused execution it
\* answers with a not-found error that differs from the one for an unknown
\* definition, and it invokes sm.ResumeExecution on no execution.
C8_NoMatchNotFound ==
    \A c \in Clients :
        /\ (/\ resume[c].pc \in {"loop", "done"}
            /\ resume[c].op = "ResumeByCorrelation"
            /\ resume[c].found
            /\ resume[c].waiting = <<>>)
           => (/\ resume[c].pc = "done"
               /\ rresp[c] = NoWaitingExecutions
               /\ rresp[c] # DefinitionNotFound
               /\ resume[c].calls = <<>>)
        /\ (/\ resume[c].pc = "done"
            /\ resume[c].op = "ResumeByCorrelation"
            /\ resume[c].hasRepo
            /\ resume[c].bindOk
            /\ resume[c].stateMachineID \notin Defs)
           => (/\ rresp[c] = DefinitionNotFound
               /\ ~resume[c].found)

C8_Witness ==
    /\ resume["c1"].pc = "done"
    /\ resume["c1"].op = "ResumeByCorrelation"
    /\ resume["c1"].found
    /\ resume["c1"].waiting = <<>>
    /\ rresp["c1"] = NoWaitingExecutions
    /\ \E id \in ExecIds : /\ store[id].status = "PAUSED"
                           /\ store[id].def = resume["c1"].stateMachineID


(***************************************************************************)
(* Properties of the worker lifecycle.                                     *)
(***************************************************************************)
\* C9: Stop before Start has ever been called is a no-op: the worker stays
\* stopped, nothing is cancelled and nothing is shut down, and a later Start
\* still brings the worker to running.
C9_StopBeforeStartNoOp ==
    /\ [](hist.starts = 0 =>
            /\ ~worker.cancelled
            /\ hist.shutdownCalls = 0
            /\ qw.state = "stopped")
    /\ [][(run' = run - 1 /\ qw.state = "stopped")
            => qw'.state = "running"]_vars

\* C10: Stop on a running worker returns only once no task is executing any
\* more (the tasks have finished, or the grace period has elapsed), it leaves
\* the worker stopped, and a Start after it is accepted and brings the same
\* worker back to running.
C10_StopDrainsAndAllowsRestart ==
    /\ [](\A c \in Callers :
            hist.lastStop[c].invoked = "running" =>
                /\ hist.lastStop[c].returned = "stopped"
                /\ hist.lastStop[c].inflight = 0
                /\ (hist.lastStop[c].aborted > 0
                       => hist.lastStop[c].graceElapsed))
    /\ [][(hist'.starts = hist.starts + 1) => run' = run + 1]_vars
    /\ [][(run' = run - 1 /\ qw.state = "stopped")
            => qw'.state = "running"]_vars

C10_Witness ==
    /\ hist.lastStop["main"].invoked = "running"
    /\ hist.lastStop["main"].returned = "stopped"
    /\ hist.lastStop["main"].starts = 1
    /\ hist.lastStop["main"].run = 0
    /\ hist.starts = 2
    /\ run = 0
    /\ qw.state = "running"
    /\ qw.completed > 0
    /\ worker.cancelled

\* C11: Start on a worker that is already running is an idempotent no-op: it
\* leaves the worker as one Start left it, with one consumer loop and no
\* further call of queueWorker.Run().
C11_StartIdempotent ==
    [][(hist'.starts = hist.starts + 1 /\ qw.state = "running")
          => UNCHANGED <<worker, qw, run>>]_vars

\* The tasks the queue and the queue worker hold, finished ones included.
TasksHeld(q) ==
    q.pending + q.inflight + q.completed

StopInProgress ==
    \E c \in Callers : wpc[c].pc = "shutdown"

CollaboratorAbsent(config) ==
    \/ config.isNil
    \/ ~config.EnableWorker
    \/ ~config.QueueConfig
    \/ ~config.RepositoryManager
    \/ ~config.BaseExecutor

\* C13: when the configuration is nil, disabled or lacks the queue
\* configuration, the repository manager or the base executor, NewWorker
\* gives a nil worker and no error, and Start and Stop on it do nothing: no
\* Run, no cancel, no Shutdown, and the worker is never running.
C13_AbsentCollaboratorNilWorker ==
    CollaboratorAbsent(hist.config) =>
        /\ worker = NilWorker
        /\ qw = StoppedQueueWorker(qw.pending)
        /\ run = 0
        /\ sig = "none"
        /\ wpc = [c \in Callers |-> IdleCaller]
        /\ hist.starts = 0
        /\ hist.stopCalls = 0
        /\ hist.shutdownCalls = 0

C13_Witness ==
    /\ ~hist.config.isNil
    /\ hist.config.EnableWorker
    /\ hist.config.QueueConfig
    /\ ~hist.config.RepositoryManager
    /\ hist.nilCalls = MaxStarts
    /\ qw.pending > 0

(***************************************************************************)
(* Properties of the execution options.                                    *)
(***************************************************************************)
\* C14: when every batch run applies the uniqueness option, then after any
\* sequence of runs and task redeliveries no source record has more than one
\* derived execution.
C14_UniqueOnePerSource ==
    derive.allUnique => \A id \in ExecIds : derive.derived[id] <= 1

C14_Witness ==
    /\ derive.allUnique
    /\ derive.runs = MaxRuns
    /\ derive.deliveries = MaxDeliveries
    /\ derive.pc = "idle"
    /\ \A id \in ExecIds : derive.derived[id] = 1

\* C15: a batch whose transformer name is not registered does not fail
\* because of it and behaves as the same batch without a transformer name:
\* the same option list, which has no provenance and no transform option,
\* the untransformed inputs and no failed item.
C15_UnregisteredAsOmitted ==
    (/\ derive.pc = "run"
     /\ RegistryLookup(derive.registry, derive.sourceInputTransformer) = "nil")
    => /\ derive.execOpts = ExecOpts(derive.applyUnique, "", derive.registry)
       /\ ~HasOption(derive.execOpts, "WithInputTransformerName")
       /\ ~HasOption(derive.execOpts, "WithInputTransformer")
       /\ derive.failed = {}
       /\ \A id \in ExecIds : derive.input[id] \in {"", "output"}

\* The option list of the contract: the uniqueness option if asked for, then
\* the provenance and the transform option if the name is not empty and
\* resolves in the registry.
ReferenceOpts(applyUniqueness, transformerName, registry) ==
    (IF applyUniqueness THEN <<WithUniqueness>> ELSE <<>>)
    \o (IF transformerName # "" /\ registry[transformerName] = "fn"
        THEN <<WithInputTransformerName(transformerName),
               WithInputTransformer(transformerName)>>
        ELSE <<>>)

\* C16: for every uniqueness flag, transformer name and registry the
\* composed option list is the one of the contract; an empty transformer
\* name gives no transform option, whatever the registry holds.
C16_ComposedAsContract ==
    derive.pc = "run" =>
        /\ derive.execOpts = ReferenceOpts(derive.applyUnique,
                                           derive.sourceInputTransformer,
                                           derive.registry)
        /\ (derive.sourceInputTransformer = ""
               => ~HasOption(derive.execOpts, "WithInputTransformer"))

(***************************************************************************)
(* Further properties of the batch handler.                                *)
(***************************************************************************)
\* C17: the items of a batch are submitted to the queue as tasks if and only
\* if a queue client is configured and the mode of the request is
\* "distributed"; otherwise every item is executed in-process; no batch has
\* items on both paths.
C17_ModeSelection ==
    batch.pc \in {"dispatch", "done"} =>
        /\ \A i \in 1 .. batch.next :
              i \in batch.tasks
                  <=> (batch.hasQueue /\ batch.mode = "distributed")
        /\ batch.tasks \in {{}, 1 .. batch.next}

C17_Witness ==
    /\ batch.pc = "done"
    /\ batch.hasQueue
    /\ batch.mode # "distributed"
    /\ batch.next = NumExecs
    /\ batch.tasks = {}
    /\ bresp.totalEnqueued = NumExecs

\* C18: when the handler fails with no repository manager, a malformed
\* request or an unknown target definition, it answers with that error
\* before any dispatch: no source record is queried, no derived execution is
\* started and no task is enqueued.
C18_AbortBeforeDispatch ==
    (batch.pc # "idle"
        /\ (~batch.hasRepo \/ ~batch.bindOk \/ ~batch.defFound)) =>
        /\ batch.pc = "done"
        /\ ~batch.queried
        /\ batch.matched = <<>>
        /\ batch.next = 0
        /\ batch.inflight = {}
        /\ batch.tasks = {}
        /\ bresp = (IF ~batch.hasRepo
                    THEN ErrorResponse(HttpInternalServerError,
                                       "Repository manager not configured")
                    ELSE IF ~batch.bindOk
                    THEN ErrorResponse(HttpBadRequest, "Invalid request")
                    ELSE ErrorResponse(HttpNotFound,
                                       "State machine not found"))

C18_Witness ==
    /\ batch.pc = "done"
    /\ batch.hasRepo
    /\ batch.bindOk
    /\ ~batch.defFound
    /\ bresp.code = HttpNotFound

ReferenceFilter(r, target) ==
    [isNil |-> FALSE,
     StateMachineID |-> IF r.SourceStateMachineId = "" THEN target
                        ELSE r.SourceStateMachineId,
     Status |-> r.Status,
     Limit |-> r.Limit,
     Offset |-> r.Offset,
     StartAfter |-> IF r.StartTimeFrom = 0 THEN Unset
                    ELSE [isZero |-> FALSE, unix |-> r.StartTimeFrom],
     StartBefore |-> IF r.StartTimeTo = 0 THEN Unset
                     ELSE [isZero |-> FALSE, unix |-> r.StartTimeTo]]

\* C20: for every filter of a request the filter built is the one of the
\* contract, field by field, and depends on nothing else.
C20_FilterAsContract ==
    (built.pc = "built" /\ built.hasFilter) =>
        built.filter = ReferenceFilter(built.req, built.stateMachineID)

C20_Witness ==
    /\ built.pc = "built"
    /\ built.hasFilter
    /\ built.stateMachineID = "A"
    /\ built.req.SourceStateMachineId = "B"
    /\ built.req.Limit = 0
    /\ built.req.Offset = -1
    /\ built.req.StartTimeFrom = 0
    /\ built.req.StartTimeTo = NumExecs
    /\ built.filter.StateMachineID = "B"
    /\ built.filter.StartAfter = Unset
    /\ built.filter.StartBefore.unix = NumExecs

\* C21: the concurrency bound handed to the dispatcher is at least 1 for
\* every batch request, whether the request carries a zero, a positive or a
\* negative concurrency.
C21_BoundAtLeastOne ==
    (batch.pc \in {"dispatch", "done"} /\ batch.queried) => batch.bound >= 1

\* A client's StopExecution request on a stored execution is answered in
\* this step.
StopAnswered(c) ==
    /\ resume[c].pc = "idle"
    /\ resume'[c].op = "StopExecution"
    /\ resume'[c].hasRepo
    /\ resume'[c].executionID \in ExecIds

\* C22: a stop request on an execution whose status is already terminal
\* (SUCCEEDED, FAILED or CANCELLED) is rejected as a state conflict (400
\* "Execution already stopped") and leaves the execution records unchanged.
C22_StopOnTerminalRejected ==
    [][\A c \in Clients :
          (StopAnswered(c) /\ store[resume'[c].executionID].status \in Terminal)
          => /\ rresp'[c].code = HttpBadRequest
             /\ rresp'[c].error = "Execution already stopped"
             /\ store' = store]_vars

C22_Witness ==
    \E c \in Clients :
       /\ resume[c].op = "StopExecution"
       /\ resume[c].hasRepo
       /\ resume[c].executionID \in ExecIds
       /\ store[resume[c].executionID].status = "CANCELLED"
       /\ rresp[c].code = HttpBadRequest

\* C23: enqueueing an execution with an explicit queue name in the request
\* returns a task handle whose queue is the queue the task landed on, and
\* that queue is the one the request named.
C23_EnqueueQueueAsNamed ==
    (/\ submission.op = "EnqueueExecution"
     /\ submission.resp.code = HttpCreated
     /\ submission.queue # "")
    => /\ submission.resp.queue
             = submission.tasks[Len(submission.tasks)].queue
       /\ submission.resp.queue = submission.queue

\* The answer names a collaborator that is not configured.
DependencyUnavailable(resp) ==
    /\ resp.code = HttpInternalServerError
    /\ resp.error \in {"Repository manager not configured",
                       "Queue client not configured"}

\* C27: an operation whose collaborator is not configured fails with
\* DependencyUnavailable before any side effect: StartExecution without a
\* repository manager (with or without a base executor) starts no execution,
\* and EnqueueExecution without a queue client submits no task.
C27_AbsentCollaboratorFails ==
    [][(\/ submission'.op = "StartExecution" /\ ~submission'.hasRepo
        \/ submission'.op = "EnqueueExecution" /\ ~submission'.hasQueue)
       => /\ DependencyUnavailable(submission'.resp)
          /\ submission'.started = submission.started
          /\ submission'.tasks = submission.tasks]_submission

\* The successful calls of sm.ResumeExecution made for an execution, over
\* all clients.
SuccessfulResumes(id) ==
    {ci \in Clients \X (1 .. NumExecs) :
        /\ ci[2] <= Len(resume[ci[1]].calls)
        /\ resume[ci[1]].calls[ci[2]] = [id |-> id, ok |-> TRUE]}

\* A client calls sm.ResumeExecution in this step.
EngineInvoked(c) ==
    Len(resume'[c].calls) = Len(resume[c].calls) + 1

\* C24: a PAUSED execution is resumed at most once: under any interleaving
\* of concurrent ResumeExecution and ResumeByCorrelation requests on the same
\* execution the engine's resume succeeds for it at most once, and the engine
\* is never called for an execution that has left PAUSED.
C24_ResumedAtMostOnce ==
    /\ [](\A id \in ExecIds : Cardinality(SuccessfulResumes(id)) <= 1)
    /\ [][\A c \in Clients :
             EngineInvoked(c)
             => store[resume'[c].calls[Len(resume'[c].calls)].id].status
                    = "PAUSED"]_vars

\* C25: no operation of this layer (ResumeExecution, ResumeByCorrelation,
\* StopExecution, FindWaitingExecutions) changes an execution whose status is
\* terminal: once SUCCEEDED, FAILED or CANCELLED, a record stays as it is.
C25_TerminalStays ==
    [][\A id \in ExecIds :
          store[id].status \in Terminal => store'[id] = store[id]]_vars

\* StopExecution has answered the client with success and status CANCELLED.
StopSucceeded(c) ==
    /\ resume[c].op = "StopExecution"
    /\ rresp[c].code = HttpOK
    /\ rresp[c].status = "CANCELLED"

\* A client's GetExecution request on a stored execution is answered in
\* this step.
GetAnswered(c) ==
    /\ resume[c].pc = "idle"
    /\ resume'[c].op = "GetExecution"
    /\ resume'[c].hasRepo
    /\ resume'[c].executionID \in ExecIds

\* C26: after StopExecution has answered success with status CANCELLED, the
\* stored status of the execution is CANCELLED, a following GetExecution
\* reports CANCELLED, and a second StopExecution on it is rejected as already
\* stopped.
C26_StopTakesEffect ==
    /\ [](\A c \in Clients :
             StopSucceeded(c)
             => store[resume[c].executionID].status = "CANCELLED")
    /\ [][\A c, d \in Clients :
             (StopSucceeded(c) /\ GetAnswered(d)
              /\ resume'[d].executionID = resume[c].executionID)
             => rresp'[d].status = "CANCELLED"]_vars
    /\ [][\A c, d \in Clients :
             (StopSucceeded(c) /\ StopAnswered(d)
              /\ resume'[d].executionID = resume[c].executionID)
             => /\ rresp'[d].code = HttpBadRequest
                /\ rresp'[d].error = "Execution already stopped"]_vars

\* C28: a batch request that carries no filter object is handled without an
\* internal error: the handler goes on with an unset filter and answers with
\* the usual counts (or with the error of the dispatcher).
C28_NoFilterHandled ==
    (/\ batch.pc = "done"
     /\ batch.hasRepo /\ batch.bindOk /\ batch.defFound
     /\ ~batch.hasFilter)
    => bresp.error \in {"", "Batch execution failed"}

\* C29: the mode reported in a batch response is the mode in which the items
\* were dispatched: when the response says "distributed", every item of the
\* batch was submitted to the queue and none was executed in-process.
C29_ReportedModeIsDispatched ==
    (/\ batch.pc = "done"
     /\ batch.queried
     /\ bresp.code = HttpOK
     /\ bresp.mode = "distributed")
    => batch.tasks = 1 .. batch.next

\* C30: the worker is safe under concurrent or repeated Stop: when the signal
\* goroutine of StartWithGracefulShutdown and a direct or deferred Stop both
\* run, in any interleaving, queueWorker.Shutdown() is called at most once,
\* and once both calls have returned the queue worker is stopped.
C30_ShutdownAtMostOnce ==
    ~worker.isNil
    => /\ hist.shutdownCalls <= 1
       /\ (/\ hist.stopCalls >= 2
           /\ \A c \in Callers : wpc[c].pc = "idle")
          => qw.state = "stopped"

====
